---- MODULE Spec2Model ----
(***************************************************************************)
(* PowerClash runtime module (apps/web/games/pc/features/startGame.ts):    *)
(* a two-player, best-of-three, commit-reveal game over five moves with    *)
(* timeout forfeiture and settlement through the MatchMaker base class.    *)
(*                                                                         *)
(* Every runtime method is one atomic action (the sequencer runs           *)
(* transactions one at a time).  A failed assert(...) aborts the           *)
(* transaction: no state write of the call is kept and the status message  *)
(* of the first failed assert is reported.                                 *)
(***************************************************************************)
EXTENDS Integers, Sequences, FiniteSets, TLC

VARIABLES
    games,          \* StateMap<UInt64, Game>: id -> [isSome, value]
    clock,          \* this.network.block.height
    gameFund,       \* MatchMaker.gameFund: id -> escrowed amount
    activeGameId,   \* MatchMaker.activeGameId: account -> match id
    settlements,    \* calls made to MatchMaker.acquireFunds, in order
    lobbyEnded,     \* calls made to MatchMaker._onLobbyEnd, in order
    started,        \* lobby ids the matchmaker has already handed over
    result          \* outcome of the last transaction: status, returned values

vars == <<games, clock, gameFund, activeGameId, settlements, lobbyEnded,
          started, result>>

----------------------------------------------------------------------------
(* Program constants *)

ROUNDS_TO_WIN == 2
MOVE_TIME_LIMIT == 50

(* Bounds of the model *)

\* clock values are k * MOVE_TIME_LIMIT + j, k <= MaxEpoch, j in Offsets
MaxEpoch == 2
\* settlement calls recorded
MaxSettlements == 2

----------------------------------------------------------------------------
(* Values *)

\* PublicKey.empty()
Empty == "empty"

\* lobby.players[0], lobby.players[1] and an account that is in no lobby
Accounts == {"p1", "p2", "x"}

PublicKeys == Accounts \cup {Empty}

\* Field(-1), the "unset move" value
Sentinel == 0 - 1

LegalMoves == 0 .. 4

\* the move values a reveal may carry: every legal move, the unset value and
\* a value that names no move
MoveValues == {Sentinel} \cup LegalMoves \cup {5}

Salts == {0}

\* new RPSLSMove({ move, salt })
RPSLSMove(move, salt) == [move |-> move, salt |-> salt]

RevealArgs == {RPSLSMove(m, s) : m \in MoveValues, s \in Salts}

\* the reveals of the matches played against the clock
PlayArgs == {RPSLSMove(m, s) : m \in {0, 2}, s \in Salts}

\* Poseidon.hash([move, salt]): deterministic, collision free and never the
\* zero field element on the inputs a player can produce.  Modelled by the
\* Cantor pairing of (move + 1, salt), shifted by one.
Hash(move, salt) ==
    LET a == move + 1
        b == salt
    IN  (((a + b) * (a + b + 1)) \div 2) + b + 1

\* the commitments a transaction may carry: zero, and the hash of every reveal
CommitmentsOf(args) == {0} \cup {Hash(m.move, m.salt) : m \in args}

Offsets == {0, 1}

ClockValues == {k * MOVE_TIME_LIMIT + j : k \in 0 .. MaxEpoch, j \in Offsets}

GameIds == {1}

Fees == {3}

\* the lobbies the matchmaker hands to initGame
Lobbies == {[id |-> i, players |-> <<"p1", "p2">>, participationFee |-> f] :
            i \in GameIds, f \in Fees}

\* status messages
OK == "ok"
GameFinished == "Game already finished"
NotAParticipant == "You are not a player in this game"
CommitWindowClosed == "Commitment period has ended"
RevealWindowClosed == "Reveal period has ended"
RevealMismatch == "Revealed move does not match commitment"
OpponentNotTimedOut == "Opponent has not timed out yet"

\* roundWinner: PublicKey | null
Null == "null"

\* value: the UInt64 initGame returns, <<id>>; <<>> for the methods that
\* return no id
Void == <<>>

----------------------------------------------------------------------------
(* The Game struct *)

\* the value StateMap.get returns for a key that was never set: every field zero
DefaultGame ==
    [id |-> 0, player1 |-> Empty, player2 |-> Empty,
     player1Commitment |-> 0, player2Commitment |-> 0,
     player1Move |-> RPSLSMove(0, 0), player2Move |-> RPSLSMove(0, 0),
     player1Wins |-> 0, player2Wins |-> 0,
     commitmentDeadline |-> 0, revealDeadline |-> 0,
     gameWinner |-> Empty, lastMoveBlockHeight |-> 0]

\* the reveal deadline set one window, not two, after the block height
NewGame_SingleWindow(gameId, lobby, height) ==
    [id |-> gameId, player1 |-> lobby.players[1], player2 |-> lobby.players[2],
     player1Commitment |-> 0, player2Commitment |-> 0,
     player1Move |-> RPSLSMove(Sentinel, 0), player2Move |-> RPSLSMove(Sentinel, 0),
     player1Wins |-> 0, player2Wins |-> 0,
     commitmentDeadline |-> height + MOVE_TIME_LIMIT,
     revealDeadline |-> height + MOVE_TIME_LIMIT,
     gameWinner |-> Empty, lastMoveBlockHeight |-> height]

\* initGame, lines 300-314
NewGame(gameId, lobby, height) ==
    [id |-> gameId, player1 |-> lobby.players[1], player2 |-> lobby.players[2],
     player1Commitment |-> 0, player2Commitment |-> 0,
     player1Move |-> RPSLSMove(Sentinel, 0), player2Move |-> RPSLSMove(Sentinel, 0),
     player1Wins |-> 0, player2Wins |-> 0,
     commitmentDeadline |-> height + MOVE_TIME_LIMIT,
     revealDeadline |-> height + MOVE_TIME_LIMIT * 2,
     gameWinner |-> Empty, lastMoveBlockHeight |-> height]

\* (await this.games.get(gameId)).value
GetGame(gameId) == games[gameId].value

\* await this.games.set(gameId, game)
SetGame(gameId, game) == [games EXCEPT ![gameId] = [isSome |-> TRUE, value |-> game]]

\* first failed assert of a list of <<condition, message>>, OK when none fails
RECURSIVE FirstFailed(_)
FirstFailed(asserts) ==
    IF asserts = <<>> THEN OK
    ELSE IF ~ asserts[1][1] THEN asserts[1][2]
    ELSE FirstFailed(Tail(asserts))

----------------------------------------------------------------------------
(* determineWinner *)

\* a uniform modular-offset rule in place of the tabulated relation
determineWinner_Modular(move1, move2, player1, player2) ==
    IF move1 = move2 THEN Empty
    ELSE IF ((move2 - move1) % 5) \in {2, 3} THEN player1 ELSE player2

determineWinner(move1, move2, player1, player2) ==
    LET p1Wins ==
            \/ (move1 = 0 /\ (move2 = 2 \/ move2 = 3))
            \/ (move1 = 1 /\ (move2 = 0 \/ move2 = 4))
            \/ (move1 = 2 /\ (move2 = 1 \/ move2 = 3))
            \/ (move1 = 3 /\ (move2 = 1 \/ move2 = 4))
            \/ (move1 = 4 /\ (move2 = 0 \/ move2 = 2))
    IN  IF p1Wins THEN player1
        ELSE IF move1 = move2 THEN Empty ELSE player2

----------------------------------------------------------------------------
(* endGame: the calls it makes on the MatchMaker base *)

\* the acquireFunds call of endGame
endGamePayout(game) ==
    IF game.gameWinner = Empty
    THEN [id |-> game.id, winner |-> game.player1, loser |-> game.player2,
          winnerShare |-> 1, loserShare |-> 1, drawShare |-> 0]
    ELSE LET loser == IF game.gameWinner = game.player1 THEN game.player2
                      ELSE game.player1
         IN  [id |-> game.id, winner |-> game.gameWinner, loser |-> loser,
              winnerShare |-> 2, loserShare |-> 0, drawShare |-> 0]

\* the whole of endGame
endGame(game) ==
    /\ settlements' = Append(settlements, endGamePayout(game))
    /\ activeGameId' = [activeGameId EXCEPT ![game.player1] = 0, ![game.player2] = 0]
    /\ lobbyEnded' = Append(lobbyEnded, game.id)

noEndGame == UNCHANGED <<settlements, activeGameId, lobbyEnded>>

----------------------------------------------------------------------------
(* commitMove *)

\* the "Game already finished" assert left out
commitMoveAsserts_NoFinishedCheck(game, sender, height) ==
    FirstFailed(<<
        <<sender = game.player1 \/ sender = game.player2, NotAParticipant>>,
        <<height <= game.commitmentDeadline, CommitWindowClosed>> >>)

commitMoveAsserts(game, sender, height) ==
    FirstFailed(<<
        <<game.gameWinner = Empty, GameFinished>>,
        <<sender = game.player1 \/ sender = game.player2, NotAParticipant>>,
        <<height <= game.commitmentDeadline, CommitWindowClosed>> >>)

\* the commitment always stored in player1's slot
commitMoveGame_Player1Slot(game, sender, commitment, height) ==
    [game EXCEPT !.player1Commitment = commitment,
                 !.lastMoveBlockHeight = height]

commitMoveGame(game, sender, commitment, height) ==
    LET g1 == IF sender = game.player1
              THEN [game EXCEPT !.player1Commitment = commitment]
              ELSE [game EXCEPT !.player2Commitment = commitment]
    IN  [g1 EXCEPT !.lastMoveBlockHeight = height]

commitMove(gameId, sender, commitment) ==
    LET game == GetGame(gameId)
        status == commitMoveAsserts(game, sender, clock)
    IN  /\ result' = [op |-> "commitMove", status |-> status, roundWinner |-> Null,
                      value |-> Void]
        /\ games' = IF status = OK
                    THEN SetGame(gameId, commitMoveGame(game, sender, commitment, clock))
                    ELSE games
        /\ noEndGame
        /\ UNCHANGED <<clock, gameFund, started>>

----------------------------------------------------------------------------
(* revealMove *)

\* the reveal deadline compared with "less than"
revealMoveAsserts_StrictDeadline(game, sender, move, height) ==
    FirstFailed(<<
        <<game.gameWinner = Empty, GameFinished>>,
        <<sender = game.player1 \/ sender = game.player2, NotAParticipant>>,
        <<height < game.revealDeadline, RevealWindowClosed>>,
        <<IF sender = game.player1
          THEN Hash(move.move, move.salt) = game.player1Commitment
          ELSE Hash(move.move, move.salt) = game.player2Commitment,
          RevealMismatch>> >>)

\* player2's reveal compared with player1's commitment
revealMoveAsserts_WrongSlot(game, sender, move, height) ==
    FirstFailed(<<
        <<game.gameWinner = Empty, GameFinished>>,
        <<sender = game.player1 \/ sender = game.player2, NotAParticipant>>,
        <<height <= game.revealDeadline, RevealWindowClosed>>,
        <<Hash(move.move, move.salt) = game.player1Commitment, RevealMismatch>> >>)

\* the "Reveal deadline passed" assert left out
revealMoveAsserts_NoDeadline(game, sender, move, height) ==
    FirstFailed(<<
        <<game.gameWinner = Empty, GameFinished>>,
        <<sender = game.player1 \/ sender = game.player2, NotAParticipant>>,
        <<IF sender = game.player1
          THEN Hash(move.move, move.salt) = game.player1Commitment
          ELSE Hash(move.move, move.salt) = game.player2Commitment,
          RevealMismatch>> >>)

revealMoveAsserts(game, sender, move, height) ==
    FirstFailed(<<
        <<game.gameWinner = Empty, GameFinished>>,
        <<sender = game.player1 \/ sender = game.player2, NotAParticipant>>,
        <<height <= game.revealDeadline, RevealWindowClosed>>,
        <<IF sender = game.player1
          THEN Hash(move.move, move.salt) = game.player1Commitment
          ELSE Hash(move.move, move.salt) = game.player2Commitment,
          RevealMismatch>> >>)

\* lines 178-184: the move is stored in the sender's slot
revealMoveStore(game, sender, move) ==
    IF sender = game.player1
    THEN [game EXCEPT !.player1Move = move]
    ELSE [game EXCEPT !.player2Move = move]

\* line 188: both moves are revealed
bothRevealed(game) ==
    game.player1Move.move # Sentinel /\ game.player2Move.move # Sentinel

\* line 189
roundWinnerOf(game) ==
    determineWinner(game.player1Move.move, game.player2Move.move,
                    game.player1, game.player2)

\* lines 191-195
\* a tied round credited to player2
countRound_TieToPlayer2(game, roundWinner) ==
    IF roundWinner = game.player1
    THEN [game EXCEPT !.player1Wins = @ + 1]
    ELSE [game EXCEPT !.player2Wins = @ + 1]

countRound(game, roundWinner) ==
    IF roundWinner = game.player1
    THEN [game EXCEPT !.player1Wins = @ + 1]
    ELSE IF roundWinner = game.player2
    THEN [game EXCEPT !.player2Wins = @ + 1]
    ELSE game

\* player2's threshold test naming player1
matchWinner_WrongPlayer(game) ==
    IF game.player1Wins = ROUNDS_TO_WIN THEN game.player1
    ELSE IF game.player2Wins = ROUNDS_TO_WIN THEN game.player1
    ELSE Empty

\* lines 198-203: the match winner, Empty when the match goes on
matchWinner(game) ==
    IF game.player1Wins = ROUNDS_TO_WIN THEN game.player1
    ELSE IF game.player2Wins = ROUNDS_TO_WIN THEN game.player2
    ELSE Empty

\* the deadlines of the resolved round kept for the next one
resetRound_KeepsDeadlines(game, height) ==
    [game EXCEPT !.player1Commitment = 0,
                 !.player2Commitment = 0,
                 !.player1Move = RPSLSMove(Sentinel, 0),
                 !.player2Move = RPSLSMove(Sentinel, 0)]

\* lines 205-211
resetRound(game, height) ==
    [game EXCEPT !.player1Commitment = 0,
                 !.player2Commitment = 0,
                 !.player1Move = RPSLSMove(Sentinel, 0),
                 !.player2Move = RPSLSMove(Sentinel, 0),
                 !.commitmentDeadline = height + MOVE_TIME_LIMIT,
                 !.revealDeadline = height + MOVE_TIME_LIMIT * 2]

\* endGame called in player1's branch only
revealConcludes_Player1Only(game) ==
    /\ bothRevealed(game)
    /\ countRound(game, roundWinnerOf(game)).player1Wins = ROUNDS_TO_WIN

\* lines 188-213: whether this call ends the match
revealConcludes(game) ==
    bothRevealed(game) /\ matchWinner(countRound(game, roundWinnerOf(game))) # Empty

\* lines 188-213 applied to the game with the move stored
resolveRound(game, height) ==
    IF bothRevealed(game)
    THEN LET counted == countRound(game, roundWinnerOf(game))
         IN  IF matchWinner(counted) # Empty
             THEN [counted EXCEPT !.gameWinner = matchWinner(counted)]
             ELSE resetRound(counted, height)
    ELSE game

\* the stamp of line 215 left out
stampLastMove_Skip(game, height) == game

\* line 215
stampLastMove(game, height) == [game EXCEPT !.lastMoveBlockHeight = height]

\* the Game persisted by a successful revealMove
revealMoveGame(game, sender, move, height) ==
    stampLastMove(resolveRound(revealMoveStore(game, sender, move), height), height)

revealMove(gameId, sender, move) ==
    LET game == GetGame(gameId)
        status == revealMoveAsserts(game, sender, move, clock)
        stored == revealMoveStore(game, sender, move)
    IN  /\ result' = [op |-> "revealMove", status |-> status,
                      roundWinner |-> IF status = OK /\ bothRevealed(stored)
                                      THEN roundWinnerOf(stored) ELSE Null,
                      value |-> Void]
        /\ IF status = OK
           THEN /\ games' = SetGame(gameId, revealMoveGame(game, sender, move, clock))
                /\ IF revealConcludes(stored)
                   THEN endGame(resolveRound(stored, clock))
                   ELSE noEndGame
           ELSE /\ UNCHANGED games
                /\ noEndGame
        /\ UNCHANGED <<clock, gameFund, started>>

----------------------------------------------------------------------------
(* claimTimeoutVictory *)

\* the "Game already finished" assert left out
claimTimeoutAsserts_NoFinishedCheck(game, height) ==
    FirstFailed(<<
        <<height > game.lastMoveBlockHeight + MOVE_TIME_LIMIT, OpponentNotTimedOut>> >>)

\* the inactivity window compared with "greater than or equal"
claimTimeoutAsserts_NonStrict(game, height) ==
    FirstFailed(<<
        <<game.gameWinner = Empty, GameFinished>>,
        <<height >= game.lastMoveBlockHeight + MOVE_TIME_LIMIT, OpponentNotTimedOut>> >>)

claimTimeoutAsserts(game, height) ==
    FirstFailed(<<
        <<game.gameWinner = Empty, GameFinished>>,
        <<height > game.lastMoveBlockHeight + MOVE_TIME_LIMIT, OpponentNotTimedOut>> >>)

\* lines 237-240
claimTimeoutGame(game, sender) ==
    LET isPlayer1 == sender = game.player1
    IN  [game EXCEPT !.gameWinner = IF isPlayer1 THEN game.player1 ELSE game.player2]

claimTimeoutVictory(gameId, sender) ==
    LET game == GetGame(gameId)
        status == claimTimeoutAsserts(game, clock)
    IN  /\ (status = OK /\ gameId \notin started)
           => Len(settlements) < MaxSettlements
        /\ result' = [op |-> "claimTimeoutVictory", status |-> status,
                      roundWinner |-> Null,
                      value |-> Void]
        /\ IF status = OK
           THEN /\ games' = SetGame(gameId, claimTimeoutGame(game, sender))
                /\ endGame(claimTimeoutGame(game, sender))
           ELSE /\ UNCHANGED games
                /\ noEndGame
        /\ UNCHANGED <<clock, gameFund, started>>

----------------------------------------------------------------------------
(* initGame *)

\* MatchMaker.initGame: the match id is the lobby's id; the players' active
\* match is recorded when the match is started
\* the match id MatchMaker.initGame returns
superInitGameId(lobby) == lobby.id

superInitGame(lobby, shouldInit) ==
    /\ activeGameId' = IF shouldInit
                       THEN [activeGameId EXCEPT ![lobby.players[1]] = lobby.id,
                                                 ![lobby.players[2]] = lobby.id]
                       ELSE activeGameId

initGame(lobby, shouldInit) ==
    LET gameId == superInitGameId(lobby)
        game == NewGame(gameId, lobby, clock)
    IN  /\ shouldInit => gameId \notin started
        /\ superInitGame(lobby, shouldInit)
        /\ IF shouldInit
           THEN /\ games' = SetGame(gameId, game)
                /\ gameFund' = [gameFund EXCEPT ![gameId] = lobby.participationFee * 2]
                /\ started' = started \cup {gameId}
           ELSE UNCHANGED <<games, gameFund, started>>
        /\ result' = [op |-> "initGame", status |-> OK, roundWinner |-> Null,
                      value |-> <<gameId>>]
        /\ UNCHANGED <<clock, settlements, lobbyEnded>>

----------------------------------------------------------------------------
(* The ledger clock *)

Tick ==
    /\ \E t \in ClockValues : t > clock /\ clock' = t
    /\ UNCHANGED <<games, gameFund, activeGameId, settlements, lobbyEnded,
                   started, result>>

----------------------------------------------------------------------------
Init ==
    /\ games = [i \in GameIds |-> [isSome |-> FALSE, value |-> DefaultGame]]
    /\ clock = 0
    /\ gameFund = [i \in GameIds |-> 0]
    /\ activeGameId = [a \in PublicKeys |-> 0]
    /\ settlements = <<>>
    /\ lobbyEnded = <<>>
    /\ started = {}
    /\ result = [op |-> "none", status |-> OK, roundWinner |-> Null,
                      value |-> Void]

\* the transactions whose reveals are drawn from args
Transactions(args) ==
    \/ \E lobby \in Lobbies, shouldInit \in BOOLEAN : initGame(lobby, shouldInit)
    \/ \E gameId \in GameIds, sender \in Accounts, commitment \in CommitmentsOf(args) :
          commitMove(gameId, sender, commitment)
    \/ \E gameId \in GameIds, sender \in Accounts, move \in args :
          revealMove(gameId, sender, move)
    \/ \E gameId \in GameIds, sender \in Accounts : claimTimeoutVictory(gameId, sender)

Next ==
    \/ Transactions(PlayArgs)
    \/ Tick

Spec == Init /\ [][Next]_vars

\* every move value, all transactions in the block the model starts in
RoundNext == Transactions(RevealArgs)

RoundSpec == Init /\ [][RoundNext]_vars

\* The abandoned match: the accounts send commits, reveals and new matches
\* during the first epochs and then stop; the clock runs on past every
\* deadline those transactions can set, and timeout claims stay possible.
StillActing == clock < MaxEpoch * MOVE_TIME_LIMIT

LiveClockValues ==
    {k * MOVE_TIME_LIMIT + j : k \in 0 .. MaxEpoch + 3, j \in Offsets}

LiveTick ==
    /\ \E t \in LiveClockValues : t > clock /\ clock' = t
    /\ UNCHANGED <<games, gameFund, activeGameId, settlements, lobbyEnded,
                   started, result>>

LateClaim ==
    /\ ~StillActing
    /\ \E gameId \in GameIds, sender \in Accounts : claimTimeoutVictory(gameId, sender)

\* a claim by a player of a match that passes both asserts
PlayerClaim ==
    \E gameId \in started :
      \E sender \in {GetGame(gameId).player1, GetGame(gameId).player2} :
        /\ claimTimeoutAsserts(GetGame(gameId), clock) = OK
        /\ claimTimeoutVictory(gameId, sender)

LiveNext ==
    \/ StillActing /\ Transactions(PlayArgs)
    \/ LateClaim
    \/ LiveTick

\* blocks keep being produced, and a player who can claim the timeout does
LiveSpec ==
    /\ Init /\ [][LiveNext]_vars
    /\ WF_vars(LiveTick)
    /\ WF_vars(PlayerClaim)

----------------------------------------------------------------------------
(* Properties *)

\* a match: a Game the matchmaker handed to initGame
IsMatch(gameId) == gameId \in started

\* a match that is not concluded
InProgress(gameId) == IsMatch(gameId) /\ GetGame(gameId).gameWinner = Empty

Concluded(gameId) == IsMatch(gameId) /\ GetGame(gameId).gameWinner # Empty

\* the two players of the lobbies
Players == {"p1", "p2"}

\* C1: move secrecy.  A revealMove is accepted only when both commitments of
\* the round are set, and a commitMove is accepted only while the opponent's
\* move of the round is still unrevealed.
C1_MoveSecrecy ==
    [][\A gameId \in GameIds, sender \in Players :
         LET game == GetGame(gameId)
             opponentMove == IF sender = game.player1 THEN game.player2Move
                             ELSE game.player1Move
         IN  IsMatch(gameId) =>
             /\ \A move \in PlayArgs :
                  (revealMove(gameId, sender, move) /\ result'.status = OK)
                  => (game.player1Commitment # 0 /\ game.player2Commitment # 0)
             /\ \A commitment \in CommitmentsOf(PlayArgs) :
                  (commitMove(gameId, sender, commitment) /\ result'.status = OK)
                  => opponentMove.move = Sentinel]_vars

\* C2: once gameWinner is non-empty it never changes again (so it becomes
\* non-empty at most once and never reverts to empty).
C2_WinnerSetOnce ==
    [][\A gameId \in GameIds :
         GetGame(gameId).gameWinner # Empty
         => games'[gameId].value.gameWinner = GetGame(gameId).gameWinner]_vars

\* C2 witness: a concluded match on which a further timeout claim was tried
C2_Witness ==
    \E gameId \in GameIds :
        /\ Concluded(gameId)
        /\ result.op = "claimTimeoutVictory"
        /\ result.status = GameFinished

\* C3: on a concluded match every commitMove, revealMove and
\* claimTimeoutVictory fails with "Game already finished", and no step
\* changes the Game record.
C3_ConcludedIsFrozen ==
    /\ [](\A gameId \in GameIds, sender \in Accounts :
            Concluded(gameId) =>
            /\ commitMoveAsserts(GetGame(gameId), sender, clock) = GameFinished
            /\ \A move \in RevealArgs :
                 revealMoveAsserts(GetGame(gameId), sender, move, clock) = GameFinished
            /\ claimTimeoutAsserts(GetGame(gameId), clock) = GameFinished)
    /\ [][\A gameId \in GameIds :
            Concluded(gameId) =>
            /\ games'[gameId] = games[gameId]
            /\ \A sender \in Accounts :
                 /\ \A commitment \in CommitmentsOf(PlayArgs) :
                      commitMove(gameId, sender, commitment)
                      => result'.status = GameFinished
                 /\ \A move \in PlayArgs :
                      revealMove(gameId, sender, move)
                      => result'.status = GameFinished
                 /\ claimTimeoutVictory(gameId, sender)
                    => result'.status = GameFinished]_vars

\* C3 witness: a commitMove was tried on a concluded match and failed
C3_Witness ==
    \E gameId \in GameIds :
        /\ Concluded(gameId)
        /\ result.op = "commitMove"
        /\ result.status = GameFinished

\* the table of section 4.3: the moves each move beats
Beats ==
    [m \in LegalMoves |->
        CASE m = 0 -> {2, 3}
          [] m = 1 -> {0, 4}
          [] m = 2 -> {1, 3}
          [] m = 3 -> {1, 4}
          [] m = 4 -> {0, 2}]

TableWinner(move1, move2, player1, player2) ==
    IF move1 = move2 THEN Empty
    ELSE IF move2 \in Beats[move1] THEN player1
    ELSE player2

\* the commitment and the move stored for a player of a game
CommitmentOf(game, sender) ==
    IF sender = game.player1 THEN game.player1Commitment ELSE game.player2Commitment

MoveOf(game, sender) ==
    IF sender = game.player1 THEN game.player1Move ELSE game.player2Move

\* C4: determineWinner agrees with the table on every pair of legal moves:
\* tie exactly on equal moves, player1 exactly when move1 beats move2, player2
\* otherwise; on distinct moves exactly one side wins and swapping the moves
\* swaps the winner; and the round winner a resolving revealMove returns is
\* the table's.
C4_WinnerTable ==
    /\ [](\A move1 \in LegalMoves, move2 \in LegalMoves :
            /\ determineWinner(move1, move2, "p1", "p2")
                 = TableWinner(move1, move2, "p1", "p2")
            /\ (determineWinner(move1, move2, "p1", "p2") = Empty) <=> (move1 = move2)
            /\ move1 # move2 =>
                 /\ determineWinner(move1, move2, "p1", "p2") \in {"p1", "p2"}
                 /\ (determineWinner(move1, move2, "p1", "p2") = "p1")
                     <=> (determineWinner(move2, move1, "p1", "p2") = "p2"))
    /\ [][\A gameId \in GameIds, sender \in Players, move \in RevealArgs :
            LET stored == revealMoveStore(GetGame(gameId), sender, move)
            IN  (/\ revealMove(gameId, sender, move)
                 /\ result'.status = OK
                 /\ stored.player1Move.move \in LegalMoves
                 /\ stored.player2Move.move \in LegalMoves)
                => result'.roundWinner
                     = TableWinner(stored.player1Move.move, stored.player2Move.move,
                                   stored.player1, stored.player2)]_vars

\* C4 witness: the match was decided by a round of 3 against 0, which the
\* table gives to player2 (0 beats 3)
C4_Witness ==
    \E gameId \in GameIds :
        LET game == GetGame(gameId)
        IN  /\ IsMatch(gameId)
            /\ result.op = "revealMove"
            /\ result.roundWinner = "p2"
            /\ game.gameWinner = "p2"
            /\ game.player1Move.move = 3
            /\ game.player2Move.move = 0

\* what a reveal by sender of the move he committed to must give
RoundTripPre(gameId, sender, move) ==
    /\ InProgress(gameId)
    /\ CommitmentOf(GetGame(gameId), sender) = Hash(move.move, move.salt)
    /\ clock <= GetGame(gameId).revealDeadline

\* the reveal completed the round and the match goes on: the record was reset
RoundWasReset(gameId) ==
    /\ result'.roundWinner # Null
    /\ games'[gameId].value.gameWinner = Empty
    /\ games'[gameId].value.player1Move = RPSLSMove(Sentinel, 0)
    /\ games'[gameId].value.player2Move = RPSLSMove(Sentinel, 0)

\* C5 as stated: the reveal of the committed (move, salt) within the reveal
\* deadline succeeds and the persisted record holds the move in the player's slot.
C5_RoundTripRecordsMove ==
    [][\A gameId \in GameIds, sender \in Players, move \in PlayArgs :
         (RoundTripPre(gameId, sender, move) /\ revealMove(gameId, sender, move))
         => /\ result'.status = OK
            /\ MoveOf(games'[gameId].value, sender) = move]_vars

\* C5 amended: the reveal always succeeds; the persisted record holds the
\* move in the player's slot, unless the reveal completed a round that does
\* not conclude the match, and then both moves are back at the unset value.
C5_RoundTrip ==
    /\ [](\A gameId \in GameIds, sender \in Players, move \in PlayArgs :
            RoundTripPre(gameId, sender, move)
            => revealMoveAsserts(GetGame(gameId), sender, move, clock) = OK)
    /\ [][\A gameId \in GameIds, sender \in Players, move \in PlayArgs :
            (RoundTripPre(gameId, sender, move) /\ revealMove(gameId, sender, move))
            => /\ result'.status = OK
               /\ \/ MoveOf(games'[gameId].value, sender) = move
                  \/ RoundWasReset(gameId)]_vars

\* C5 witness: player1 revealed at the reveal deadline the move committed
\* to, and the record holds it
C5_Witness ==
    \E gameId \in GameIds :
        LET game == GetGame(gameId)
        IN  /\ InProgress(gameId)
            /\ result.op = "revealMove"
            /\ result.status = OK
            /\ game.player1Move = RPSLSMove(2, 0)
            /\ game.player1Commitment = Hash(2, 0)
            /\ game.lastMoveBlockHeight = game.revealDeadline

\* a reveal by a player that does not open the stored commitment
Mismatch(gameId, sender, move) ==
    /\ IsMatch(gameId)
    /\ CommitmentOf(GetGame(gameId), sender) # Hash(move.move, move.salt)

\* C6 as stated: a mismatching reveal by a player always reports
\* "Revealed move does not match commitment".
C6_MismatchStatus ==
    \A gameId \in GameIds, sender \in Players, move \in PlayArgs :
        Mismatch(gameId, sender, move)
        => revealMoveAsserts(GetGame(gameId), sender, move, clock) = RevealMismatch

\* C6 amended: a mismatching reveal by a player always fails and changes
\* nothing; it reports the mismatch when the match is in progress and the
\* clock is within the reveal deadline (an earlier assert reports first
\* otherwise).  A move slot changes only to the unset value of a new round
\* or to a move that opens the player's own non-zero commitment.
C6_MismatchFails ==
    /\ [](\A gameId \in GameIds, sender \in Players, move \in PlayArgs :
            Mismatch(gameId, sender, move) =>
            LET status == revealMoveAsserts(GetGame(gameId), sender, move, clock)
            IN  /\ status # OK
                /\ (InProgress(gameId) /\ clock <= GetGame(gameId).revealDeadline)
                   => status = RevealMismatch)
    /\ [][\A gameId \in GameIds, sender \in Players :
            /\ \A move \in PlayArgs :
                 (Mismatch(gameId, sender, move) /\ revealMove(gameId, sender, move))
                 => /\ result'.status # OK
                    /\ UNCHANGED <<games, settlements, activeGameId, lobbyEnded>>
            /\ (/\ IsMatch(gameId)
                /\ MoveOf(games'[gameId].value, sender) # MoveOf(GetGame(gameId), sender)
                /\ MoveOf(games'[gameId].value, sender) # RPSLSMove(Sentinel, 0))
               => LET new == MoveOf(games'[gameId].value, sender)
                  IN  /\ CommitmentOf(GetGame(gameId), sender) = Hash(new.move, new.salt)
                      /\ CommitmentOf(GetGame(gameId), sender) # 0]_vars

\* C6 witness: player2, who has not committed in the round, tried a reveal
\* and got the mismatch
C6_Witness ==
    \E gameId \in GameIds :
        LET game == GetGame(gameId)
        IN  /\ InProgress(gameId)
            /\ result.op = "revealMove"
            /\ result.status = RevealMismatch
            /\ game.player2Commitment = 0
            /\ game.player1Commitment # 0
            /\ game.player2Move.move = Sentinel

\* the clock is past the inactivity window of the game
TimedOut(game) == clock > game.lastMoveBlockHeight + MOVE_TIME_LIMIT

\* C7: on a match in progress claimTimeoutVictory fails with "Opponent has
\* not timed out yet" and changes nothing while the clock is at most
\* lastMoveBlockHeight + MOVE_TIME_LIMIT, and succeeds and concludes the match
\* when the clock is strictly greater.
C7_TimeoutBoundary ==
    /\ [](\A gameId \in GameIds :
            InProgress(gameId) =>
            claimTimeoutAsserts(GetGame(gameId), clock)
              = IF TimedOut(GetGame(gameId)) THEN OK ELSE OpponentNotTimedOut)
    /\ [][\A gameId \in GameIds, sender \in Accounts :
            (InProgress(gameId) /\ claimTimeoutVictory(gameId, sender))
            => IF TimedOut(GetGame(gameId))
               THEN /\ result'.status = OK
                    /\ games'[gameId].value.gameWinner # Empty
               ELSE /\ result'.status = OpponentNotTimedOut
                    /\ UNCHANGED <<games, settlements, activeGameId, lobbyEnded,
                                   gameFund>>]_vars

\* C7 witness: a claim made exactly at lastMoveBlockHeight + MOVE_TIME_LIMIT
\* was refused
C7_Witness ==
    \E gameId \in GameIds :
        /\ InProgress(gameId)
        /\ result.op = "claimTimeoutVictory"
        /\ result.status = OpponentNotTimedOut
        /\ clock = GetGame(gameId).lastMoveBlockHeight + MOVE_TIME_LIMIT

\* C8: every successful claimTimeoutVictory on a match sets gameWinner to
\* the caller, whoever the caller is.
C8_WinnerIsClaimant ==
    [][\A gameId \in GameIds, sender \in Accounts :
         (/\ IsMatch(gameId)
          /\ claimTimeoutVictory(gameId, sender)
          /\ result'.status = OK)
         => games'[gameId].value.gameWinner = sender]_vars

\* C9 as stated: claimTimeoutVictory succeeds on a match only when the clock
\* is past commitmentDeadline with a commitment unset, or past revealDeadline
\* with a move unrevealed.
C9_OnlyAfterMissedDeadline ==
    [][\A gameId \in GameIds, sender \in Accounts :
         LET game == GetGame(gameId)
         IN  (/\ IsMatch(gameId)
              /\ claimTimeoutVictory(gameId, sender)
              /\ result'.status = OK)
             => \/ /\ clock > game.commitmentDeadline
                   /\ (game.player1Commitment = 0 \/ game.player2Commitment = 0)
                \/ /\ clock > game.revealDeadline
                   /\ \/ game.player1Move.move = Sentinel
                      \/ game.player2Move.move = Sentinel]_vars

\* C9 amended: claimTimeoutVictory succeeds on a match only when the clock
\* is past lastMoveBlockHeight + MOVE_TIME_LIMIT, and then it is also past
\* commitmentDeadline, as in every state of a match commitmentDeadline is at
\* most lastMoveBlockHeight + MOVE_TIME_LIMIT.  (It can succeed with both
\* commitments set while the reveal deadline is still open.)
C9_OnlyAfterInactivity ==
    /\ [](\A gameId \in GameIds :
            IsMatch(gameId) =>
            GetGame(gameId).commitmentDeadline
              <= GetGame(gameId).lastMoveBlockHeight + MOVE_TIME_LIMIT)
    /\ [][\A gameId \in GameIds, sender \in Accounts :
            LET game == GetGame(gameId)
            IN  (/\ IsMatch(gameId)
                 /\ claimTimeoutVictory(gameId, sender)
                 /\ result'.status = OK)
                => /\ clock > game.lastMoveBlockHeight + MOVE_TIME_LIMIT
                   /\ clock > game.commitmentDeadline]_vars

\* C9 witness: a timeout claim concluded a match in which both players had
\* committed and the reveal deadline was still open
C9_Witness ==
    \E gameId \in GameIds :
        LET game == GetGame(gameId)
        IN  /\ Concluded(gameId)
            /\ result.op = "claimTimeoutVictory"
            /\ result.status = OK
            /\ game.player1Commitment # 0
            /\ game.player2Commitment # 0
            /\ clock <= game.revealDeadline

\* C10: the round-win counters stay within 0..ROUNDS_TO_WIN and never
\* decrease; a revealMove sets gameWinner only in the step in which a counter
\* reaches ROUNDS_TO_WIN, and to the player whose counter it is; every other
\* step that sets gameWinner is a claimTimeoutVictory.
C10_WinCounters ==
    /\ [](\A gameId \in GameIds :
            /\ GetGame(gameId).player1Wins \in 0 .. ROUNDS_TO_WIN
            /\ GetGame(gameId).player2Wins \in 0 .. ROUNDS_TO_WIN)
    /\ [][\A gameId \in GameIds :
            LET old == GetGame(gameId)
                new == games'[gameId].value
            IN  /\ new.player1Wins >= old.player1Wins
                /\ new.player2Wins >= old.player2Wins
                /\ (old.gameWinner = Empty /\ new.gameWinner # Empty) =>
                   \/ \E sender \in Accounts : claimTimeoutVictory(gameId, sender)
                   \/ /\ \E sender \in Players, move \in RevealArgs :
                            revealMove(gameId, sender, move)
                      /\ \/ /\ old.player1Wins = ROUNDS_TO_WIN - 1
                            /\ new.player1Wins = ROUNDS_TO_WIN
                            /\ new.player2Wins = old.player2Wins
                            /\ new.gameWinner = new.player1
                         \/ /\ old.player2Wins = ROUNDS_TO_WIN - 1
                            /\ new.player2Wins = ROUNDS_TO_WIN
                            /\ new.player1Wins = old.player1Wins
                            /\ new.gameWinner = new.player2]_vars

\* C10 witness: player2 reached the threshold in a revealMove and is the winner
C10_Witness ==
    \E gameId \in GameIds :
        LET game == GetGame(gameId)
        IN  /\ IsMatch(gameId)
            /\ result.op = "revealMove"
            /\ result.roundWinner = "p2"
            /\ game.player2Wins = ROUNDS_TO_WIN
            /\ game.player1Wins = 1
            /\ game.gameWinner = "p2"

\* the acquireFunds calls and the _onLobbyEnd calls made for a match id
SettlementsOf(gameId) == SelectSeq(settlements, LAMBDA s : s.id = gameId)

LobbyEndsOf(gameId) == SelectSeq(lobbyEnded, LAMBDA i : i = gameId)

\* C11: endGame (acquireFunds and _onLobbyEnd with it) is invoked exactly
\* once per match: in the step in which gameWinner becomes non-empty, not
\* before and not again.
C11_SettledOnce ==
    /\ [](\A gameId \in GameIds :
            IsMatch(gameId) =>
            /\ Len(SettlementsOf(gameId)) = IF Concluded(gameId) THEN 1 ELSE 0
            /\ Len(LobbyEndsOf(gameId)) = IF Concluded(gameId) THEN 1 ELSE 0)
    /\ [][\A gameId \in GameIds :
            IsMatch(gameId) =>
            LET becomesConcluded ==
                    /\ GetGame(gameId).gameWinner = Empty
                    /\ games'[gameId].value.gameWinner # Empty
            IN  /\ (settlements' # settlements) <=> becomesConcluded
                /\ (lobbyEnded' # lobbyEnded) <=> becomesConcluded
                /\ becomesConcluded =>
                     /\ Len(settlements') = Len(settlements) + 1
                     /\ settlements'[Len(settlements')].id = gameId
                     /\ lobbyEnded' = Append(lobbyEnded, gameId)]_vars

\* C11 witness: player2 won the match by a reveal, it was settled once, and
\* a later transaction on it was refused
C11_Witness ==
    \E gameId \in GameIds :
        /\ Concluded(gameId)
        /\ GetGame(gameId).player2Wins = ROUNDS_TO_WIN
        /\ Len(SettlementsOf(gameId)) = 1
        /\ result.status = GameFinished

\* C12: whenever a match concludes, settlement pays gameWinner as the winner
\* and the other player as the loser at shares 2:0 (draw 0), clears both
\* players' active-match pointers and signals _onLobbyEnd; and no execution
\* takes the even-split branch of endGame.
C12_SettlementPaysWinner ==
    /\ \A i \in DOMAIN settlements :
         /\ settlements[i].winnerShare = 2
         /\ settlements[i].loserShare = 0
         /\ settlements[i].drawShare = 0
    /\ \A gameId \in GameIds :
         Concluded(gameId) =>
         LET game == GetGame(gameId)
             loser == IF game.gameWinner = game.player1 THEN game.player2
                      ELSE game.player1
         IN  /\ SettlementsOf(gameId)
                  = << [id |-> gameId, winner |-> game.gameWinner, loser |-> loser,
                        winnerShare |-> 2, loserShare |-> 0, drawShare |-> 0] >>
             /\ activeGameId[game.player1] = 0
             /\ activeGameId[game.player2] = 0
             /\ LobbyEndsOf(gameId) = <<gameId>>

\* C13: every revealed move stored in the Game of a match is the unset
\* value or a legal move, and revealMove never accepts a move outside 0..4
\* nor the unset value itself.
C13_RevealedMovesLegal ==
    /\ [](\A gameId \in GameIds :
            IsMatch(gameId) =>
            /\ GetGame(gameId).player1Move.move \in {Sentinel} \cup LegalMoves
            /\ GetGame(gameId).player2Move.move \in {Sentinel} \cup LegalMoves)
    /\ [][\A gameId \in GameIds, sender \in Players, move \in RevealArgs :
            (/\ IsMatch(gameId)
             /\ revealMove(gameId, sender, move)
             /\ result'.status = OK)
            => move.move \in LegalMoves]_vars

\* the step resolves the round of the match: a round winner is returned
RoundResolved == result'.op = "revealMove" /\ result'.roundWinner # Null

\* C14: once a player's move is revealed in a round, no commitMove or
\* revealMove replaces it with another move before the round is resolved.
C14_RevealedMoveImmutable ==
    [][\A gameId \in GameIds, sender \in Players :
         LET old == MoveOf(GetGame(gameId), sender)
             new == MoveOf(games'[gameId].value, sender)
         IN  (InProgress(gameId) /\ old.move # Sentinel /\ new # old)
             => (RoundResolved /\ result' # result)]_vars

\* C15: a commitMove by a player of an in-progress match at clock <=
\* commitmentDeadline succeeds, stores the commitment in the caller's own slot
\* (over any earlier one), stamps lastMoveBlockHeight with the clock and
\* leaves every other field of the Game unchanged, for player1 and player2.
C15_CommitStoresOwnSlot ==
    /\ [](\A gameId \in GameIds, sender \in Players :
            (InProgress(gameId) /\ clock <= GetGame(gameId).commitmentDeadline)
            => commitMoveAsserts(GetGame(gameId), sender, clock) = OK)
    /\ [][\A gameId \in GameIds, sender \in Players,
            commitment \in CommitmentsOf(RevealArgs) :
            (/\ InProgress(gameId)
             /\ clock <= GetGame(gameId).commitmentDeadline
             /\ commitMove(gameId, sender, commitment))
            => LET old == GetGame(gameId)
                   new == games'[gameId].value
                   other == CHOOSE p \in Players : p # sender
               IN  /\ result'.status = OK
                   /\ CommitmentOf(new, sender) = commitment
                   /\ new.lastMoveBlockHeight = clock
                   /\ CommitmentOf(new, other) = CommitmentOf(old, other)
                   /\ new.player1Move = old.player1Move
                   /\ new.player2Move = old.player2Move
                   /\ new.player1Wins = old.player1Wins
                   /\ new.player2Wins = old.player2Wins
                   /\ new.commitmentDeadline = old.commitmentDeadline
                   /\ new.revealDeadline = old.revealDeadline
                   /\ new.gameWinner = old.gameWinner
                   /\ new.player1 = old.player1 /\ new.player2 = old.player2
                   /\ new.id = old.id]_vars

\* player2 has overwritten nothing of player1's: both commitments stand after
\* player2's commitMove in the last block of the commit window
C15_Witness ==
    \E gameId \in GameIds :
        /\ InProgress(gameId)
        /\ result.op = "commitMove" /\ result.status = OK
        /\ GetGame(gameId).player1Commitment = Hash(0, 0)
        /\ GetGame(gameId).player2Commitment = Hash(2, 0)
        /\ GetGame(gameId).lastMoveBlockHeight = GetGame(gameId).commitmentDeadline
        /\ GetGame(gameId).lastMoveBlockHeight = clock /\ clock > 0

\* the step is a revealMove that resolves a round of the match and begins the
\* next one
BeginsNewRound(gameId) ==
    /\ InProgress(gameId)
    /\ \E sender \in Players, move \in RevealArgs : revealMove(gameId, sender, move)
    /\ result'.status = OK
    /\ result'.roundWinner # Null
    /\ games'[gameId].value.gameWinner = Empty

\* C16 as stated: each time a new round begins both deadlines are strictly
\* greater than the previous round's, at every clock value at which the round
\* can be resolved.
C16_DeadlinesStrictlyIncrease ==
    [][\A gameId \in GameIds :
         BeginsNewRound(gameId)
         => /\ games'[gameId].value.commitmentDeadline > GetGame(gameId).commitmentDeadline
            /\ games'[gameId].value.revealDeadline > GetGame(gameId).revealDeadline]_vars

\* C16 amended: each time a new round begins the deadlines are clock + 50 and
\* clock + 100; they are never smaller than the previous round's, and strictly
\* greater exactly when the round is resolved in a later block than the one
\* it started in.
C16_DeadlinesNeverDecrease ==
    [][\A gameId \in GameIds :
         BeginsNewRound(gameId)
         => LET old == GetGame(gameId)
                new == games'[gameId].value
                roundStart == old.commitmentDeadline - MOVE_TIME_LIMIT
            IN  /\ new.commitmentDeadline = clock + MOVE_TIME_LIMIT
                /\ new.revealDeadline = clock + 2 * MOVE_TIME_LIMIT
                /\ old.revealDeadline = roundStart + 2 * MOVE_TIME_LIMIT
                /\ new.commitmentDeadline >= old.commitmentDeadline
                /\ new.revealDeadline >= old.revealDeadline
                /\ (new.commitmentDeadline > old.commitmentDeadline) <=> (clock > roundStart)
                /\ (new.revealDeadline > old.revealDeadline) <=> (clock > roundStart)]_vars

\* a second round begun in a later block than the first
C16_Witness ==
    \E gameId \in GameIds :
        /\ InProgress(gameId)
        /\ result.op = "revealMove" /\ result.roundWinner = GetGame(gameId).player1
        /\ GetGame(gameId).player1Wins = 1 /\ GetGame(gameId).player2Wins = 0
        /\ clock = MOVE_TIME_LIMIT
        /\ GetGame(gameId).commitmentDeadline = 2 * MOVE_TIME_LIMIT
        /\ GetGame(gameId).revealDeadline = 3 * MOVE_TIME_LIMIT

\* the clock is past the inactivity window that follows the reveal deadline
PastAllDeadlines(gameId) ==
    clock > GetGame(gameId).revealDeadline + MOVE_TIME_LIMIT

\* C17: no in-progress match gets stuck.  In every match revealDeadline =
\* commitmentDeadline + MOVE_TIME_LIMIT and lastMoveBlockHeight <=
\* revealDeadline; at every clock value greater than revealDeadline +
\* MOVE_TIME_LIMIT commitMove and revealMove fail for both players while
\* claimTimeoutVictory by a player succeeds and concludes the match; and when
\* the clock is fair and a player's timeout claim is fair, a match whose
\* players stop acting is eventually concluded.
C17_NoStuckMatch ==
    /\ [](\A gameId \in GameIds :
            IsMatch(gameId) =>
            /\ GetGame(gameId).revealDeadline
                 = GetGame(gameId).commitmentDeadline + MOVE_TIME_LIMIT
            /\ GetGame(gameId).lastMoveBlockHeight <= GetGame(gameId).revealDeadline)
    /\ [](\A gameId \in GameIds, sender \in Players :
            (InProgress(gameId) /\ PastAllDeadlines(gameId)) =>
            /\ commitMoveAsserts(GetGame(gameId), sender, clock) = CommitWindowClosed
            /\ \A move \in RevealArgs :
                 revealMoveAsserts(GetGame(gameId), sender, move, clock)
                   = RevealWindowClosed
            /\ claimTimeoutAsserts(GetGame(gameId), clock) = OK)
    /\ [][\A gameId \in GameIds, sender \in Players :
            (/\ InProgress(gameId) /\ PastAllDeadlines(gameId)
             /\ claimTimeoutVictory(gameId, sender))
            => /\ result'.status = OK
               /\ games'[gameId].value.gameWinner # Empty]_vars
    /\ \A gameId \in GameIds : InProgress(gameId) ~> Concluded(gameId)

\* a match abandoned after a resolved round, concluded by a claim made more
\* than MOVE_TIME_LIMIT after its reveal deadline
C17_Witness ==
    \E gameId \in GameIds :
        /\ Concluded(gameId)
        /\ result.op = "claimTimeoutVictory" /\ result.status = OK
        /\ GetGame(gameId).player1Wins + GetGame(gameId).player2Wins = 1
        /\ GetGame(gameId).lastMoveBlockHeight > 0
        /\ PastAllDeadlines(gameId)

\* C18: initGame with shouldInit false returns the match id and leaves games
\* and gameFund unchanged; with shouldInit true it returns the match id and
\* persists under it a fresh Game (commitments 0, moves unset, counters 0, no
\* winner, commitmentDeadline = clock + MOVE_TIME_LIMIT, revealDeadline =
\* clock + 2 * MOVE_TIME_LIMIT) and an escrow of twice the participation fee.
C18_InitGame ==
    [][\A lobby \in Lobbies, shouldInit \in BOOLEAN :
         initGame(lobby, shouldInit)
         => /\ result'.status = OK
            /\ result'.value = <<lobby.id>>
            /\ ~shouldInit => (games' = games /\ gameFund' = gameFund)
            /\ shouldInit =>
                 /\ games'[lobby.id] =
                      [isSome |-> TRUE,
                       value |-> [id |-> lobby.id,
                                  player1 |-> lobby.players[1],
                                  player2 |-> lobby.players[2],
                                  player1Commitment |-> 0,
                                  player2Commitment |-> 0,
                                  player1Move |-> [move |-> Sentinel, salt |-> 0],
                                  player2Move |-> [move |-> Sentinel, salt |-> 0],
                                  player1Wins |-> 0,
                                  player2Wins |-> 0,
                                  commitmentDeadline |-> clock + MOVE_TIME_LIMIT,
                                  revealDeadline |-> clock + 2 * MOVE_TIME_LIMIT,
                                  gameWinner |-> Empty,
                                  lastMoveBlockHeight |-> clock]]
                 /\ gameFund'[lobby.id] = 2 * lobby.participationFee
                 /\ \A other \in GameIds \ {lobby.id} :
                      games'[other] = games[other] /\ gameFund'[other] = gameFund[other]]_vars

\* a match started in a block after the first
C18_Witness ==
    \E lobby \in Lobbies :
        /\ result = [op |-> "initGame", status |-> OK, roundWinner |-> Null,
                     value |-> <<lobby.id>>]
        /\ games[lobby.id].isSome
        /\ clock = MOVE_TIME_LIMIT + 1
        /\ GetGame(lobby.id).lastMoveBlockHeight = clock
        /\ GetGame(lobby.id).revealDeadline = clock + 2 * MOVE_TIME_LIMIT
        /\ gameFund[lobby.id] = 2 * lobby.participationFee

\* C19: the revealMove after which both moves of the round are revealed
\* resolves the round in that call: the table's winner of a decisive round
\* gains exactly 1 and the other player 0, a tie changes neither counter, and
\* when neither counter has reached ROUNDS_TO_WIN both commitments become 0,
\* both moves unset, commitmentDeadline = clock + MOVE_TIME_LIMIT and
\* revealDeadline = clock + 2 * MOVE_TIME_LIMIT.  A revealMove that leaves a
\* move unrevealed changes no counter and no deadline.
C19_RoundResolution ==
    [][\A gameId \in GameIds, sender \in Players, move \in RevealArgs :
         LET old == GetGame(gameId)
             new == games'[gameId].value
             move1 == IF sender = old.player1 THEN move.move ELSE old.player1Move.move
             move2 == IF sender = old.player2 THEN move.move ELSE old.player2Move.move
             winner == TableWinner(move1, move2, old.player1, old.player2)
             wins1 == old.player1Wins + (IF winner = old.player1 THEN 1 ELSE 0)
             wins2 == old.player2Wins + (IF winner = old.player2 THEN 1 ELSE 0)
         IN  (/\ InProgress(gameId)
              /\ move.move \in LegalMoves
              /\ revealMove(gameId, sender, move)
              /\ result'.status = OK)
             => IF move1 # Sentinel /\ move2 # Sentinel
                THEN /\ result'.roundWinner = winner
                     /\ new.player1Wins = wins1
                     /\ new.player2Wins = wins2
                     /\ (wins1 < ROUNDS_TO_WIN /\ wins2 < ROUNDS_TO_WIN) =>
                          /\ new.player1Commitment = 0
                          /\ new.player2Commitment = 0
                          /\ new.player1Move.move = Sentinel
                          /\ new.player2Move.move = Sentinel
                          /\ new.commitmentDeadline = clock + MOVE_TIME_LIMIT
                          /\ new.revealDeadline = clock + 2 * MOVE_TIME_LIMIT
                          /\ new.gameWinner = Empty
                ELSE /\ result'.roundWinner = Null
                     /\ new.player1Wins = old.player1Wins
                     /\ new.player2Wins = old.player2Wins
                     /\ new.commitmentDeadline = old.commitmentDeadline
                     /\ new.revealDeadline = old.revealDeadline]_vars

\* moves 0 and 2 revealed after the first block: counters (1, 0), fresh round
C19_Witness ==
    \E gameId \in GameIds :
        /\ InProgress(gameId)
        /\ result.op = "revealMove" /\ result.status = OK
        /\ result.roundWinner = GetGame(gameId).player1
        /\ GetGame(gameId).player1Wins = 1 /\ GetGame(gameId).player2Wins = 0
        /\ GetGame(gameId).player1Commitment = 0 /\ GetGame(gameId).player2Commitment = 0
        /\ GetGame(gameId).player1Move.move = Sentinel
        /\ GetGame(gameId).player2Move.move = Sentinel
        /\ clock = 1
        /\ GetGame(gameId).commitmentDeadline = 1 + MOVE_TIME_LIMIT
        /\ GetGame(gameId).revealDeadline = 1 + 2 * MOVE_TIME_LIMIT

\* C20: a Game record comes into existence only through initGame: for an id
\* no Game was initialised under, commitMove, revealMove and
\* claimTimeoutVictory never succeed, never write a record and never trigger
\* settlement, at any clock value.
C20_OnlyInitGameCreates ==
    /\ [](\A gameId \in GameIds : games[gameId].isSome => IsMatch(gameId))
    /\ [](\A i \in DOMAIN settlements : settlements[i].id \in started)
    /\ [](\A gameId \in GameIds, sender \in Accounts :
            ~IsMatch(gameId) =>
            /\ commitMoveAsserts(GetGame(gameId), sender, clock) # OK
            /\ \A move \in RevealArgs :
                 revealMoveAsserts(GetGame(gameId), sender, move, clock) # OK
            /\ claimTimeoutAsserts(GetGame(gameId), clock) # OK)

====
